---- MODULE Spec2Model ----
(***************************************************************************)
(* Model of quadruped/demo.py: a script that connects to a physics         *)
(* backend, loads a Minitaur robot and a ground plane, and then runs a     *)
(* 10000-iteration drive loop (step, log, sample a random action, apply,   *)
(* log, sleep).                                                            *)
(*                                                                         *)
(* The action sampling of lines 17-18 is IEEE-754 binary64 arithmetic      *)
(* (numpy float64 and Python float).  A binary64 value is modelled exactly *)
(* as a record [m, e] standing for m * 2^e, where m is a 53-bit integer    *)
(* held as a sequence of bits, least significant bit first (<< >> is 0).   *)
(* TLC's integers are 32 bits wide, hence the bit sequences.               *)
(*                                                                         *)
(* The state holds a vector (random_actions, the backend's joint targets)  *)
(* by the number d of the draw of np.random.rand(8) it was computed from;  *)
(* Actions(d) is the vector itself.                                        *)
(***************************************************************************)
EXTENDS Integers, Sequences, FiniteSets

\* ------------------------------------------------------------------------
\* Natural numbers as bit sequences (least significant bit first)
\* ------------------------------------------------------------------------

\* number of significand bits of binary64
Precision == 53

Zeros(n) == [k \in 1..n |-> 0]

\* the same number without leading (most significant) zero bits
Trim(a) ==
    LET ones == {k \in 1..Len(a) : a[k] = 1}
    IN  IF ones = {} THEN << >>
        ELSE SubSeq(a, 1, CHOOSE k \in ones : \A j \in ones : j <= k)

BitAt(a, k) == IF k <= Len(a) THEN a[k] ELSE 0

RECURSIVE SmallBits(_)
\* the bits of a small non-negative integer
SmallBits(c) == IF c = 0 THEN << >> ELSE <<c % 2>> \o SmallBits(c \div 2)

RECURSIVE Propagate(_, _, _, _)
\* Carry propagation over the binary columns lo..hi of cols (column k weighs
\* 2^(k-1) and holds a small sum), with carry c coming into column lo: the
\* bits of those columns and the carry out of column hi.  The range is
\* halved at each level, the carry of the low half feeding the high half.
Propagate(cols, lo, hi, c) ==
    IF lo > hi THEN [bits |-> << >>, carry |-> c]
    ELSE IF lo = hi
    THEN [bits |-> <<(cols[lo] + c) % 2>>, carry |-> (cols[lo] + c) \div 2]
    ELSE LET mid  == (lo + hi) \div 2
             low  == Propagate(cols, lo, mid, c)
             high == Propagate(cols, mid + 1, hi, low.carry)
         IN  [bits |-> low.bits \o high.bits, carry |-> high.carry]

\* the number whose binary columns hold the sums cols
FromColumns(cols) ==
    LET r == Propagate(cols, 1, Len(cols), 0)
    IN  r.bits \o SmallBits(r.carry)

Max(x, y) == IF x < y THEN y ELSE x

\* a + b
AddBits(a, b) ==
    FromColumns([k \in 1..Max(Len(a), Len(b)) |-> BitAt(a, k) + BitAt(b, k)])

\* a * b: column k of the long multiplication holds the partial products
\* a[p] * b[k + 1 - p]
MulBits(a, b) ==
    Trim(FromColumns([k \in 1..(Len(a) + Len(b)) |->
                        Cardinality({p \in 1..Len(a) :
                                       /\ k + 1 - p \in 1..Len(b)
                                       /\ a[p] = 1
                                       /\ b[k + 1 - p] = 1})]))

\* a < b, for a and b of the same length
LessBits(a, b) ==
    \E k \in 1..Len(a) :
        /\ a[k] < b[k]
        /\ \A j \in (k + 1)..Len(a) : a[j] = b[j]

HexDigit(d) ==
    CASE d = 0 -> <<0,0,0,0>>  [] d = 1 -> <<1,0,0,0>>  [] d = 2 -> <<0,1,0,0>>
      [] d = 3 -> <<1,1,0,0>>  [] d = 4 -> <<0,0,1,0>>  [] d = 5 -> <<1,0,1,0>>
      [] d = 6 -> <<0,1,1,0>>  [] d = 7 -> <<1,1,1,0>>  [] d = 8 -> <<0,0,0,1>>
      [] d = 9 -> <<1,0,0,1>>  [] d = 10 -> <<0,1,0,1>> [] d = 11 -> <<1,1,0,1>>
      [] d = 12 -> <<0,0,1,1>> [] d = 13 -> <<1,0,1,1>> [] d = 14 -> <<0,1,1,1>>
      [] d = 15 -> <<1,1,1,1>>

RECURSIVE HexBits(_)
\* the number written with the hexadecimal digits h, most significant first
HexBits(h) ==
    IF Len(h) = 0 THEN << >>
    ELSE HexDigit(h[Len(h)]) \o HexBits(SubSeq(h, 1, Len(h) - 1))

\* ------------------------------------------------------------------------
\* binary64 arithmetic, round to nearest, ties to even
\* ------------------------------------------------------------------------

FZero == [m |-> << >>, e |-> 0]

\* the binary64 value nearest to n * 2^e (n a trimmed bit sequence)
RoundToDouble(n, e) ==
    LET L == Len(n)
        s == L - Precision
    IN  IF L = 0 THEN FZero
        ELSE IF s <= 0 THEN [m |-> Zeros(-s) \o n, e |-> e + s]
        ELSE LET q      == SubSeq(n, s + 1, L)
                 half   == n[s] = 1
                 sticky == \E k \in 1..(s - 1) : n[k] = 1
                 up     == half /\ (sticky \/ q[1] = 1)
                 q1     == AddBits(q, <<1>>)
             IN  IF ~up THEN [m |-> q, e |-> e + s]
                 ELSE IF Len(q1) = Precision THEN [m |-> q1, e |-> e + s]
                 ELSE [m |-> SubSeq(q1, 2, Len(q1)), e |-> e + s + 1]

\* float(n) for a small non-negative integer n given by its bits
FInt(n) == RoundToDouble(Trim(n), 0)

\* x * y
FMul(x, y) ==
    IF Len(x.m) = 0 \/ Len(y.m) = 0 THEN FZero
    ELSE RoundToDouble(MulBits(x.m, y.m), x.e + y.e)

\* x / 2^k: exact, the values of this model stay far from underflow
FDivPow2(x, k) == IF Len(x.m) = 0 THEN FZero ELSE [x EXCEPT !.e = @ - k]

\* x + y, for x, y >= 0
FAdd(x, y) ==
    IF Len(x.m) = 0 THEN y
    ELSE IF Len(y.m) = 0 THEN x
    ELSE LET e == IF x.e < y.e THEN x.e ELSE y.e
         IN  RoundToDouble(Trim(AddBits(Zeros(x.e - e) \o x.m,
                                        Zeros(y.e - e) \o y.m)), e)

\* x < y, for x, y >= 0
FLess(x, y) ==
    IF Len(y.m) = 0 THEN FALSE
    ELSE IF Len(x.m) = 0 THEN TRUE
    ELSE IF x.e # y.e THEN x.e < y.e
    ELSE LessBits(x.m, y.m)

FLeq(x, y) == x = y \/ FLess(x, y)

\* math.pi = 0x1.921fb54442d18p+1 = 0x1921FB54442D18 * 2^-51
MathPi == [m |-> Trim(HexBits(<<1,9,2,1,15,11,5,4,4,4,2,13,1,8>>)), e |-> -51]

\* ------------------------------------------------------------------------
\* Constants of demo.py
\* ------------------------------------------------------------------------

\* range(10000)
NumIters == 10000

\* np.random.rand(8), np.ones(8)
NumActions == 8

FOne   == FInt(<<1>>)
FThree == FInt(<<1, 1>>)

\* mutant: np.ones(8) * math.pi / 8, the factor 3 lost
Offset_NoThree == FDivPow2(FMul(FOne, MathPi), 3)

\* one component of np.ones(8) * math.pi * 3 / 8
Offset == FDivPow2(FMul(FMul(FOne, MathPi), FThree), 3)

\* one component of np.random.rand(8) * math.pi / 4, for the draw u
Scale(u) == FDivPow2(FMul(u, MathPi), 2)

RECURSIVE RandomActions(_)
\* lines 17-18, element by element, for the vector r that np.random.rand(8)
\* returned
RandomActions(r) ==
    IF Len(r) = 0 THEN << >>
    ELSE <<FAdd(Scale(Head(r)), Offset)>> \o RandomActions(Tail(r))

\* ------------------------------------------------------------------------
\* Inputs: what np.random.rand may return
\* ------------------------------------------------------------------------

\* np.random.rand returns k / 2^53 for an integer 0 <= k < 2^53
Uniform(hex) == RoundToDouble(Trim(HexBits(hex)), -Precision)

\* the draws of the model, in increasing order: 0, 2^-53, the draw next
\* below 0.1, 0.25, 0.5, the draw next below 0.9, and the two largest draws
\* 1 - 2^-52 and 1 - 2^-53
RandSamples ==
    << Uniform(<< >>),
       Uniform(<<1>>),
       Uniform(<<3,3,3,3,3,3,3,3,3,3,3,3,3>>),
       Uniform(<<8,0,0,0,0,0,0,0,0,0,0,0,0>>),
       Uniform(<<1,0,0,0,0,0,0,0,0,0,0,0,0,0>>),
       Uniform(<<1,12,12,12,12,12,12,12,12,12,12,12,12,12>>),
       Uniform(<<1,15,15,15,15,15,15,15,15,15,15,15,15,14>>),
       Uniform(<<1,15,15,15,15,15,15,15,15,15,15,15,15,15>>) >>

\* number of distinct vectors np.random.rand(8) may return in the model
NumDraws == 3

\* mutant: np.random.rand(7)
DrawVector_Short(d) ==
    SubSeq(RandSamples \o RandSamples, d, d + NumActions - 2)

\* the d-th vector: the samples, rotated by d - 1 places
DrawVector(d) ==
    SubSeq(RandSamples \o RandSamples, d, d + NumActions - 1)

Draws == 1..NumDraws

RECURSIVE ActionsUpTo(_)
\* lines 17-18 for the draws 1..d
ActionsUpTo(d) ==
    IF d = 0 THEN << >>
    ELSE ActionsUpTo(d - 1) \o <<RandomActions(DrawVector(d))>>

\* lines 17-18 over the draws of the model
ActionTable == ActionsUpTo(NumDraws)

\* no vector yet
Unbound == 0

\* the vector computed from draw d
Actions(d) == IF d = Unbound THEN << >> ELSE ActionTable[d]

\* ------------------------------------------------------------------------
\* The robot proxy and the physics backend (not part of demo.py)
\* ------------------------------------------------------------------------

\* number of actuated joints of the robot
NumMotors == 8

\* a reading of the physics state after t integrated timesteps
GetBasePosition(t) == [kind |-> "base_position", at |-> t]
GetMotorAngles(t)  == [j \in 1..NumMotors |-> t]
GetObservation(t)  == [kind |-> "observation", at |-> t]

None == << >>

\* ------------------------------------------------------------------------
\* State
\* ------------------------------------------------------------------------

VARIABLES
    pc,             \* the statement of demo.py that runs next
    i,              \* loop index; -1 before the first iteration
    obs,            \* line 15
    random_actions, \* lines 17-18: the draw the vector was computed from
    connected,      \* backend: the session is open
    gravity,        \* backend: gravity vector
    bodies,         \* backend: loaded bodies
    simTime,        \* backend: physics state, as the number of integrated steps
    jointTargets,   \* backend: joint targets recorded for the next step,
                    \* as the draw the vector was computed from
    ops,            \* history: operations completed in the current iteration
    nStep,          \* history: calls of stepSimulation completed
    nObs,           \* history: observation lines printed
    nApply,         \* history: calls of ApplyAction completed
    nBase,          \* history: base-position lines printed
    nMotor,         \* history: motor-angle lines printed
    nSleep,         \* history: sleeps completed
    obsLine,        \* stdout: last observation line
    baseLine,       \* stdout: last base-position line
    motorLine,      \* stdout: last motor-angle line
    pending,        \* history: an applied action no step has consumed yet
    drivenSteps,    \* history: steps that ran with an applied action pending
    produced,       \* history: the physics state the last step produced
    failedAt        \* history: the statement that raised, "none" if none

vars == <<pc, i, obs, random_actions, connected, gravity, bodies, simTime,
          jointTargets, ops, nStep, nObs, nApply, nBase, nMotor, nSleep,
          obsLine, baseLine, motorLine, pending, drivenSteps, produced,
          failedAt>>

program  == <<i, obs, random_actions>>
backend  == <<connected, gravity, bodies, simTime, jointTargets>>
counters == <<nStep, nObs, nApply, nBase, nMotor, nSleep>>
stdout   == <<obsLine, baseLine, motorLine>>
history  == <<ops, counters, stdout, pending, drivenSteps, produced>>

Init ==
    /\ pc = "connect"
    /\ i = -1
    /\ obs = None
    /\ random_actions = Unbound
    /\ connected = FALSE
    /\ gravity = None
    /\ bodies = {}
    /\ simTime = 0
    /\ jointTargets = Unbound
    /\ ops = << >>
    /\ nStep = 0 /\ nObs = 0 /\ nApply = 0
    /\ nBase = 0 /\ nMotor = 0 /\ nSleep = 0
    /\ obsLine = None /\ baseLine = None /\ motorLine = None
    /\ pending = FALSE
    /\ drivenSteps = 0
    /\ produced = 0
    /\ failedAt = "none"

\* ------------------------------------------------------------------------
\* Statements
\* ------------------------------------------------------------------------

\* line 7: physicsClient = p.connect(p.GUI)
Connect ==
    /\ pc = "connect"
    /\ connected' = TRUE
    /\ pc' = "setGravity"
    /\ UNCHANGED <<program, gravity, bodies, simTime, jointTargets, history, failedAt>>

\* line 8: p.setGravity(0,0,-10)
SetGravity ==
    /\ pc = "setGravity"
    /\ gravity' = <<0, 0, -10>>
    /\ pc' = "newMinitaur"
    /\ UNCHANGED <<program, connected, bodies, simTime, jointTargets, history, failedAt>>

\* line 9: minitaur = Minitaur(p)
NewMinitaur ==
    /\ pc = "newMinitaur"
    /\ bodies' = bodies \cup {"minitaur"}
    /\ pc' = "loadPlane"
    /\ UNCHANGED <<program, connected, gravity, simTime, jointTargets, history, failedAt>>

\* line 10: plane = p.loadURDF("data/plane.urdf")
LoadPlane ==
    /\ pc = "loadPlane"
    /\ bodies' = bodies \cup {"plane"}
    /\ pc' = "for"
    /\ UNCHANGED <<program, connected, gravity, simTime, jointTargets, history, failedAt>>

\* mutant: the loop runs one iteration too many
For_OffByOne ==
    /\ pc = "for"
    /\ IF i + 1 <= NumIters
       THEN /\ i' = i + 1
            /\ ops' = << >>
            /\ pc' = "step"
       ELSE /\ pc' = "done"
            /\ UNCHANGED <<i, ops>>
    /\ UNCHANGED <<obs, random_actions, backend, counters, stdout,
                   pending, drivenSteps, produced, failedAt>>

\* line 12: for i in range (10000)
For ==
    /\ pc = "for"
    /\ IF i + 1 < NumIters
       THEN /\ i' = i + 1
            /\ ops' = << >>
            /\ pc' = "step"
       ELSE /\ pc' = "done"
            /\ UNCHANGED <<i, ops>>
    /\ UNCHANGED <<obs, random_actions, backend, counters, stdout,
                   pending, drivenSteps, produced, failedAt>>

\* line 13: p.stepSimulation()
StepSimulation ==
    /\ pc = "step"
    /\ simTime' = simTime + 1
    /\ produced' = simTime + 1
    /\ nStep' = nStep + 1
    /\ drivenSteps' = IF pending THEN drivenSteps + 1 ELSE drivenSteps
    /\ pending' = FALSE
    /\ ops' = Append(ops, "step")
    /\ pc' = "ifFirst"
    /\ UNCHANGED <<program, connected, gravity, bodies, jointTargets,
                   nObs, nApply, nBase, nMotor, nSleep, stdout, failedAt>>

\* mutant: the test of line 14 always succeeds
IfFirst_EveryIteration ==
    /\ pc = "ifFirst"
    /\ pc' = IF i >= 0 THEN "getObs" ELSE "sample"
    /\ UNCHANGED <<program, backend, history, failedAt>>

\* line 14: if i == 0
IfFirst ==
    /\ pc = "ifFirst"
    /\ pc' = IF i = 0 THEN "getObs" ELSE "sample"
    /\ UNCHANGED <<program, backend, history, failedAt>>

\* line 15: obs = minitaur.GetObservation()
GetObs ==
    /\ pc = "getObs"
    /\ obs' = GetObservation(simTime)
    /\ ops' = Append(ops, "getObs")
    /\ pc' = "printObs"
    /\ UNCHANGED <<i, random_actions, backend, counters, stdout,
                   pending, drivenSteps, produced, failedAt>>

\* line 16: print(obs)
PrintObs ==
    /\ pc = "printObs"
    /\ obsLine' = obs
    /\ nObs' = nObs + 1
    /\ ops' = Append(ops, "printObs")
    /\ pc' = "sample"
    /\ UNCHANGED <<program, backend, nStep, nApply, nBase, nMotor, nSleep,
                   baseLine, motorLine, pending, drivenSteps, produced, failedAt>>

\* lines 17-18: random_actions = np.random.rand(8) * math.pi / 4
\*              random_actions += np.ones(8) * math.pi * 3 / 8
Sample ==
    /\ pc = "sample"
    /\ \E d \in Draws : random_actions' = d
    /\ ops' = Append(ops, "sample")
    /\ pc' = "apply"
    /\ UNCHANGED <<i, obs, backend, counters, stdout, pending, drivenSteps,
                   produced, failedAt>>

\* mutant: line 19 indented under the test of line 14
ApplyAction_FirstOnly ==
    /\ pc = "apply"
    /\ IF i = 0
       THEN /\ jointTargets' = random_actions
            /\ nApply' = nApply + 1
            /\ pending' = TRUE
            /\ ops' = Append(ops, "apply")
       ELSE UNCHANGED <<jointTargets, nApply, pending, ops>>
    /\ pc' = "printBase"
    /\ UNCHANGED <<program, connected, gravity, bodies, simTime,
                   nStep, nObs, nBase, nMotor, nSleep, stdout, drivenSteps,
                   produced, failedAt>>

\* line 19: minitaur.ApplyAction(random_actions)
ApplyAction ==
    /\ pc = "apply"
    /\ jointTargets' = random_actions
    /\ nApply' = nApply + 1
    /\ pending' = TRUE
    /\ ops' = Append(ops, "apply")
    /\ pc' = "printBase"
    /\ UNCHANGED <<program, connected, gravity, bodies, simTime,
                   nStep, nObs, nBase, nMotor, nSleep, stdout, drivenSteps,
                   produced, failedAt>>

\* mutant: line 21 indented under the test of line 14
PrintBase_FirstOnly ==
    /\ pc = "printBase"
    /\ IF i = 0
       THEN /\ baseLine' = GetBasePosition(simTime)
            /\ nBase' = nBase + 1
            /\ ops' = Append(ops, "printBase")
       ELSE UNCHANGED <<baseLine, nBase, ops>>
    /\ pc' = "printMotor"
    /\ UNCHANGED <<program, backend, nStep, nObs, nApply, nMotor, nSleep,
                   obsLine, motorLine, pending, drivenSteps, produced, failedAt>>

\* mutant: line 21 steps the simulation once more before it reads
PrintBase_ExtraStep ==
    /\ pc = "printBase"
    /\ simTime' = simTime + 1
    /\ baseLine' = GetBasePosition(simTime + 1)
    /\ nBase' = nBase + 1
    /\ ops' = Append(ops, "printBase")
    /\ pc' = "printMotor"
    /\ UNCHANGED <<program, connected, gravity, bodies, jointTargets,
                   nStep, nObs, nApply, nMotor, nSleep, obsLine, motorLine,
                   pending, drivenSteps, produced, failedAt>>

\* line 21: print(minitaur.GetBasePosition())
PrintBase ==
    /\ pc = "printBase"
    /\ baseLine' = GetBasePosition(simTime)
    /\ nBase' = nBase + 1
    /\ ops' = Append(ops, "printBase")
    /\ pc' = "printMotor"
    /\ UNCHANGED <<program, backend, nStep, nObs, nApply, nMotor, nSleep,
                   obsLine, motorLine, pending, drivenSteps, produced, failedAt>>

\* line 22: print(minitaur.GetMotorAngles())
PrintMotor ==
    /\ pc = "printMotor"
    /\ motorLine' = GetMotorAngles(simTime)
    /\ nMotor' = nMotor + 1
    /\ ops' = Append(ops, "printMotor")
    /\ pc' = "sleep"
    /\ UNCHANGED <<program, backend, nStep, nObs, nApply, nBase, nSleep,
                   obsLine, baseLine, pending, drivenSteps, produced, failedAt>>

\* mutant: line 25 indented under the test of line 14
Sleep_FirstOnly ==
    /\ pc = "sleep"
    /\ IF i = 0
       THEN /\ nSleep' = nSleep + 1
            /\ ops' = Append(ops, "sleep")
       ELSE UNCHANGED <<nSleep, ops>>
    /\ pc' = "for"
    /\ UNCHANGED <<program, backend, nStep, nObs, nApply, nBase, nMotor,
                   stdout, pending, drivenSteps, produced, failedAt>>

\* mutant: the sleep of iteration 1 never returns
Sleep_Blocks ==
    /\ pc = "sleep"
    /\ IF i = 1
       THEN UNCHANGED <<pc, nSleep, ops>>
       ELSE /\ nSleep' = nSleep + 1
            /\ ops' = Append(ops, "sleep")
            /\ pc' = "for"
    /\ UNCHANGED <<program, backend, nStep, nObs, nApply, nBase, nMotor,
                   stdout, pending, drivenSteps, produced, failedAt>>

\* line 25: time.sleep(1./240.)
Sleep ==
    /\ pc = "sleep"
    /\ nSleep' = nSleep + 1
    /\ ops' = Append(ops, "sleep")
    /\ pc' = "for"
    /\ UNCHANGED <<program, backend, nStep, nObs, nApply, nBase, nMotor,
                   stdout, pending, drivenSteps, produced, failedAt>>

\* the statements that call the backend or the robot proxy
SetupCalls   == {"connect", "setGravity", "newMinitaur", "loadPlane"}
LoopCalls    == {"step", "getObs", "apply", "printBase", "printMotor"}
BackendCalls == SetupCalls \cup LoopCalls

\* mutant: the exception is caught and the call is made again
Fail_Retry ==
    /\ pc \in BackendCalls
    /\ failedAt' = pc
    /\ UNCHANGED <<pc, program, backend, history>>

\* A backend call raises.  demo.py has no try/except: the exception leaves
\* the module body and the interpreter exits, taking the process (the
\* script's vectors and the in-process backend's targets) with it.
Fail ==
    /\ pc \in BackendCalls
    /\ failedAt' = pc
    /\ pc' = "failed"
    /\ random_actions' = Unbound
    /\ jointTargets' = Unbound
    /\ UNCHANGED <<i, obs, connected, gravity, bodies, simTime, ops, counters,
                   stdout, pending, drivenSteps, produced>>

Next ==
    \/ Connect \/ SetGravity \/ NewMinitaur \/ LoadPlane
    \/ For \/ StepSimulation \/ IfFirst \/ GetObs \/ PrintObs
    \/ Sample \/ ApplyAction \/ PrintBase \/ PrintMotor \/ Sleep
    \/ Fail

Spec == Init /\ [][Next]_vars

\* the interpreter runs the next statement whenever there is one
FairSpec == Spec /\ WF_vars(Next)

\* ------------------------------------------------------------------------
\* Properties
\* ------------------------------------------------------------------------

\* the statement the script is at, or was at when it failed
At == IF pc = "failed" THEN failedAt ELSE pc

Final == {"done", "failed"}

\* the statements of an iteration that follow its step
AfterStep == {"ifFirst", "getObs", "printObs", "sample", "apply",
              "printBase", "printMotor", "sleep"}

\* C1: the loop steps exactly once per iteration, for exactly 10000
\* iterations: before the step of iteration i there were i steps, after it
\* i + 1, at loop exit 10000, and after loop exit nothing more runs.
StepOncePerIteration ==
    /\ At \in SetupCalls => nStep = 0
    /\ At = "step" => nStep = i
    /\ At \in AfterStep \cup {"for"} => nStep = i + 1
    /\ pc = "done" =>
          /\ i = 9999
          /\ nStep = 10000 /\ nApply = 10000 /\ nSleep = 10000
          /\ ~ENABLED Next

StepOncePerIterationWitness ==
    pc = "done" /\ nStep = 10000 /\ failedAt = "none"

\* the bounds 3*pi/8 and 3*pi/8 + pi/4, evaluated in binary64
LowerBound == FDivPow2(FMul(FThree, MathPi), 3)
UpperBound == FAdd(LowerBound, FDivPow2(MathPi, 2))

RECURSIVE Formula(_)
\* u*pi/4 + 3*pi/8 in binary64, for each u of r
Formula(r) ==
    IF Len(r) = 0 THEN << >>
    ELSE <<FAdd(FDivPow2(FMul(Head(r), MathPi), 2), LowerBound)>>
         \o Formula(Tail(r))

RECURSIVE FormulaUpTo(_)
FormulaUpTo(d) ==
    IF d = 0 THEN << >>
    ELSE FormulaUpTo(d - 1) \o <<Formula(DrawVector(d))>>

\* the formula over the draws of the model
FormulaTable == FormulaUpTo(NumDraws)

\* C2 as stated: every component of a freshly generated action vector (the
\* script is about to apply it) equals u*pi/4 + 3*pi/8 for its draw u and
\* lies in the half-open interval [3*pi/8, 3*pi/8 + pi/4): the upper bound
\* is never reached.
ActionsInHalfOpenInterval ==
    pc = "apply" =>
        /\ Actions(random_actions) = FormulaTable[random_actions]
        /\ \A j \in 1..Len(Actions(random_actions)) :
              /\ FLeq(LowerBound, Actions(random_actions)[j])
              /\ FLess(Actions(random_actions)[j], UpperBound)

\* C2 as amended: every component of a freshly generated action vector
\* equals u*pi/4 + 3*pi/8 (in binary64) for its draw u and lies in the
\* closed interval [3*pi/8, 3*pi/8 + pi/4]: rounding lets the largest draw
\* reach the upper bound.
ActionsInClosedInterval ==
    pc = "apply" =>
        /\ Len(Actions(random_actions)) = 8
        /\ Actions(random_actions) = FormulaTable[random_actions]
        /\ \A j \in 1..Len(Actions(random_actions)) :
              /\ FLeq(LowerBound, Actions(random_actions)[j])
              /\ FLeq(Actions(random_actions)[j], UpperBound)

\* an action vector holding both bounds and a value strictly between them
ActionsInClosedIntervalWitness ==
    /\ pc = "apply"
    /\ \E j \in 1..8 : Actions(random_actions)[j] = LowerBound
    /\ \E j \in 1..8 : Actions(random_actions)[j] = UpperBound
    /\ \E j \in 1..8 :
          /\ FLess(LowerBound, Actions(random_actions)[j])
          /\ FLess(Actions(random_actions)[j], UpperBound)

\* C3: the full observation is fetched and printed exactly once, in
\* iteration 0 after that iteration's step, and never again.
ObservationOnce ==
    /\ nObs = IF i > 0 \/ (i = 0 /\ At \in {"sample", "apply", "printBase",
                                            "printMotor", "sleep", "for"})
              THEN 1 ELSE 0
    /\ obs # None <=> (i > 0 \/ (i = 0 /\ At \notin {"step", "ifFirst", "getObs"}))
    /\ (\E k \in 1..Len(ops) : ops[k] \in {"getObs", "printObs"}) => i = 0
    /\ nObs = 1 => obsLine = GetObservation(1) /\ obs = obsLine

ObservationOnceWitness ==
    pc = "done" /\ nObs = 1 /\ i = 9999

\* C4: base position and motor angles are each printed exactly once per
\* iteration, in every iteration, iteration 0 included: 10000 lines of each
\* at loop exit.
StateLoggedEveryIteration ==
    /\ At \in SetupCalls => nBase = 0 /\ nMotor = 0
    /\ At \in {"step", "ifFirst", "getObs", "printObs", "sample", "apply",
               "printBase"} => nBase = i /\ nMotor = i
    /\ At = "printMotor" => nBase = i + 1 /\ nMotor = i
    /\ At \in {"sleep", "for"} => nBase = i + 1 /\ nMotor = i + 1
    /\ pc = "done" => nBase = 10000 /\ nMotor = 10000

StateLoggedEveryIterationWitness ==
    pc = "done" /\ nBase = 10000 /\ nMotor = 10000 /\ nObs = 1

\* C5: the action vector passed to ApplyAction has exactly 8 components, as
\* many as the motor-angle reading of the same iteration.
EightActuators ==
    /\ random_actions # Unbound => Len(Actions(random_actions)) = 8
    /\ jointTargets # Unbound => Len(Actions(jointTargets)) = 8
    /\ pc = "sleep" =>
          /\ Len(motorLine) = 8
          /\ Len(Actions(jointTargets)) = Len(motorLine)
          /\ jointTargets = random_actions

EightActuatorsWitness ==
    pc = "sleep" /\ i = 1 /\ Len(Actions(jointTargets)) = 8 /\ Len(motorLine) = 8

\* the order of the operations of iteration k
IterationOrder(k) ==
    IF k = 0
    THEN <<"step", "getObs", "printObs", "sample", "apply", "printBase",
           "printMotor", "sleep">>
    ELSE <<"step", "sample", "apply", "printBase", "printMotor", "sleep">>

\* the operations of iteration k that come before statement a
Before(a, k) ==
    IF a = "ifFirst" THEN <<"step">>
    ELSE IF a \in {"for", "done"} THEN IterationOrder(k)
    ELSE LET order == IterationOrder(k)
         IN  SubSeq(order, 1, (CHOOSE n \in 1..Len(order) : order[n] = a) - 1)

\* C6: within every iteration the operations run in the fixed order step,
\* (iteration 0: fetch and print the observation,) sample, apply, print base
\* position, print motor angles, sleep, none skipped or interleaved; the
\* sleep is last and happens once, so a step starts only after the sleep of
\* the iteration before.
FixedOrder ==
    /\ i >= 0 => ops = Before(At, i)
    /\ At \in {"for", "done"} => nSleep = i + 1
    /\ At \in {"step"} \cup AfterStep => nSleep = i
    /\ At = "step" => nSleep = nStep

FixedOrderWitness ==
    pc = "for" /\ i = 1 /\ ops = IterationOrder(1) /\ nSleep = 2

\* C7: a backend failure is fatal and absorbing: after it nothing runs and
\* the failed operation has not completed; a failure during setup leaves
\* zero steps, actions and log lines; a failure in iteration i leaves only
\* the operations of iteration i before the failed one.
FailureIsFatal ==
    /\ failedAt # "none" <=> pc = "failed"
    /\ pc = "failed" =>
          /\ ~ENABLED Next
          /\ failedAt \in BackendCalls
          /\ failedAt \in SetupCalls =>
                /\ i = -1 /\ ops = << >>
                /\ nStep = 0 /\ nObs = 0 /\ nApply = 0
                /\ nBase = 0 /\ nMotor = 0 /\ nSleep = 0
          /\ failedAt \in LoopCalls =>
                /\ ops = Before(failedAt, i)
                /\ nStep   = IF failedAt = "step" THEN i ELSE i + 1
                /\ nApply  = IF failedAt \in {"printBase", "printMotor"}
                             THEN i + 1 ELSE i
                /\ nBase   = IF failedAt = "printMotor" THEN i + 1 ELSE i
                /\ nMotor  = i
                /\ nSleep  = i

FailureIsFatalWitness ==
    pc = "failed" /\ failedAt = "apply" /\ i = 2 /\ nStep = 3 /\ nApply = 2

\* C8: physics state changes only in a step: ApplyAction records the joint
\* targets and leaves the physics state alone, the getters, the prints and
\* the sleep leave it alone, and the base position and motor angles printed
\* in an iteration are readings of the state that iteration's step produced.
OnlyStepMutatesPhysics ==
    /\ [][/\ simTime' # simTime => pc = "step" /\ pc' = "ifFirst"
          /\ pc = "apply" /\ pc' = "printBase" =>
                jointTargets' = random_actions /\ simTime' = simTime]_vars
    /\ [](/\ At \in {"printMotor", "sleep"} \/ (At \in {"for", "done"} /\ i >= 0)
             => baseLine = GetBasePosition(produced) /\ produced = i + 1
          /\ At = "sleep" \/ (At \in {"for", "done"} /\ i >= 0)
             => motorLine = GetMotorAngles(produced))

OnlyStepMutatesPhysicsWitness ==
    /\ pc = "sleep" /\ i = 2 /\ simTime = 3
    /\ baseLine = GetBasePosition(3) /\ motorLine = GetMotorAngles(3)

\* C9: absent a failure the run terminates: a final state is always
\* reached, the loop index only ever grows by one, and the script stops
\* only at loop exit or at a failure.
Terminates ==
    /\ <>(pc \in Final)
    /\ [][i' = i \/ i' = i + 1]_vars
    /\ [](~ENABLED Next => pc \in Final)
    /\ [](pc = "done" => failedAt = "none" /\ i = 9999)

TerminatesWitness ==
    pc = "done" /\ failedAt = "none" /\ i = 9999

\* C10: every ApplyAction follows the step of its own iteration: steps
\* minus actions is 0 or 1, the first step runs with no action applied,
\* every later step consumes the action of the iteration before, and the
\* action of the last iteration is never consumed: 9999 of the 10000 steps
\* run with script-supplied targets.
StepBeforeAction ==
    /\ nStep - nApply \in {0, 1}
    /\ At = "apply" => nStep = nApply + 1
    /\ drivenSteps = IF nStep = 0 THEN 0 ELSE nStep - 1
    /\ pending <=> (nApply > 0 /\ nApply = nStep)
    /\ pc = "done" => nStep = 10000 /\ nApply = 10000 /\ drivenSteps = 9999 /\ pending

StepBeforeActionWitness ==
    pc = "done" /\ drivenSteps = 9999 /\ pending

====
